---- MODULE Spec2Model ----
(***************************************************************************)
(* Galamsay analysis: the GalamsayAnalyzer (load_csv, clean_row,           *)
(* clean_data, analyze), the pipeline main with save_analysis_to_database, *)
(* and the read-only query endpoints of api.py.                            *)
(*                                                                         *)
(* Strings are sequences of one-character strings, so that strip(),        *)
(* lower() and int() are computed character by character.                  *)
(***************************************************************************)
EXTENDS Integers, Sequences, FiniteSets, TLC

VARIABLES
    raw_data,       \* GalamsayAnalyzer.raw_data: list of raw rows
    cleaned_data,   \* GalamsayAnalyzer.cleaned_data: list of clean records
    errors,         \* GalamsayAnalyzer.errors: the error/warning log
    op,             \* name of the last operation that ran
    arg,            \* its argument
    ret,            \* its return value (or HTTP response)
    pc,             \* where main() is: "idle" (not running), "loaded", "cleaned",
                    \*   "analyzed", "saving", "exit" (returning)
    results,        \* main's local variable results
    session,        \* the session of save_analysis_to_database:
                    \*   "none", "open", "closed" or "abandoned" (never closed)
    tx,             \* what that session has added and not committed
    analysis_runs,  \* committed rows of table analysis_runs, in insertion order
    city_data,      \* committed rows of table city_data, in insertion order
    cities_exceeding_threshold  \* committed rows of table cities_exceeding_threshold

analyzerVars == <<raw_data, cleaned_data, errors>>
callVars == <<op, arg, ret>>
mainVars == <<pc, results, session, tx>>
dbVars == <<analysis_runs, city_data, cities_exceeding_threshold>>
vars == <<raw_data, cleaned_data, errors, op, arg, ret, pc, results, session, tx,
          analysis_runs, city_data, cities_exceeding_threshold>>

-----------------------------------------------------------------------------
(* Python values *)

\* None as a return value
None == [none |-> TRUE]

\* None as a field of a raw row: csv.DictReader fills the fields that a line
\* shorter than the header lacks with restval, which is None
Missing == <<"<None>">>

\* the empty dict returned by analyze() when there is nothing to analyze
EmptyDict == [empty |-> TRUE]

\* a session that holds nothing uncommitted
NoTx == [flushed |-> FALSE, run |-> None, cities |-> <<>>, exceeding |-> <<>>]

-----------------------------------------------------------------------------
(* str.strip(), str.lower(), int(str) *)

Whitespace == {" ", "\t", "\n", "\r"}

UpperAlpha == <<"A","B","C","D","E","F","G","H","I","J","K","L","M",
                "N","O","P","Q","R","S","T","U","V","W","X","Y","Z">>
LowerAlpha == <<"a","b","c","d","e","f","g","h","i","j","k","l","m",
                "n","o","p","q","r","s","t","u","v","w","x","y","z">>
DigitChars == <<"0","1","2","3","4","5","6","7","8","9">>

RECURSIVE LStrip(_)
LStrip(s) ==
    IF s = <<>> THEN <<>>
    ELSE IF Head(s) \in Whitespace THEN LStrip(Tail(s)) ELSE s

RECURSIVE RStrip(_)
RStrip(s) ==
    IF s = <<>> THEN <<>>
    ELSE IF s[Len(s)] \in Whitespace THEN RStrip(SubSeq(s, 1, Len(s) - 1)) ELSE s

Strip(s) == RStrip(LStrip(s))

LowerChar(c) ==
    IF \E i \in 1..26 : UpperAlpha[i] = c
    THEN LowerAlpha[CHOOSE i \in 1..26 : UpperAlpha[i] = c]
    ELSE c

Lower(s) == IF s = <<>> THEN <<>> ELSE [i \in 1..Len(s) |-> LowerChar(s[i])]

IsDigit(c) == \E i \in 1..10 : DigitChars[i] = c
DigitVal(c) == (CHOOSE i \in 1..10 : DigitChars[i] = c) - 1

\* the digits part of an int() literal: digits, with single underscores
\* allowed between two digits
IsIntBody(s) ==
    /\ s # <<>>
    /\ \A i \in 1..Len(s) :
          \/ IsDigit(s[i])
          \/ /\ s[i] = "_"
             /\ 1 < i /\ i < Len(s)
             /\ IsDigit(s[i-1]) /\ IsDigit(s[i+1])

RECURSIVE BodyVal(_, _)
BodyVal(s, acc) ==
    IF s = <<>> THEN acc
    ELSE IF Head(s) = "_" THEN BodyVal(Tail(s), acc)
    ELSE BodyVal(Tail(s), 10 * acc + DigitVal(Head(s)))

\* int(s): [ok |-> FALSE] stands for ValueError
ParseInt(s) ==
    LET t == Strip(s)
        signed == t # <<>> /\ Head(t) \in {"+", "-"}
        body == IF signed THEN Tail(t) ELSE t
    IN  IF IsIntBody(body)
        THEN [ok |-> TRUE,
              val |-> IF signed /\ Head(t) = "-" THEN 0 - BodyVal(body, 0)
                      ELSE BodyVal(body, 0)]
        ELSE [ok |-> FALSE, val |-> 0]

-----------------------------------------------------------------------------
(* GalamsayAnalyzer.clean_row *)

UnknownCity == <<"u","n","k","n","o","w","n"," ","c","i","t","y">>
InvalidRegion == <<"i","n","v","a","l","i","d"," ","r","e","g","i","o","n">>
OutlierLimit == 200

\* the entries clean_row appends to self.errors (the f-strings, by their
\* fixed text and interpolated values)
InvalidCityMsg(city) == [msg |-> "Invalid city", city |-> city]
InvalidRegionMsg(city, region) ==
    [msg |-> "Invalid region for city", city |-> city, region |-> region]
NotANumberMsg(city, sites_str) ==
    [msg |-> "Invalid sites count: not a number", city |-> city, sites_str |-> sites_str]
NegativeMsg(city, sites) ==
    [msg |-> "Negative sites count", city |-> city, sites |-> sites]
OutlierMsg(city, sites) ==
    [msg |-> "WARNING: Possible outlier", city |-> city, sites |-> sites]
RowErrorMsg(row) == [msg |-> "Error cleaning row", row |-> row]

CleanRecord(city, region, sites) == [city |-> city, region |-> region, sites |-> sites]

IsOutlier_Inclusive(sites) == sites >= OutlierLimit

\* sites > 200 (line 85)
IsOutlier(sites) == sites > OutlierLimit

IsNegative_RejectsZero(sites) == sites <= 0

\* sites < 0 (line 80)
IsNegative(sites) == sites < 0

\* clean_row with the region check made before the city check
ValidateRow_RegionFirst(errs, city, region, sites_str) ==
    IF region = <<>> \/ Lower(region) = InvalidRegion
    THEN [ret |-> None, errors |-> Append(errs, InvalidRegionMsg(city, region))]
    ELSE IF city = <<>> \/ Lower(city) = UnknownCity
    THEN [ret |-> None, errors |-> Append(errs, InvalidCityMsg(city))]
    ELSE LET p == ParseInt(sites_str)
         IN  IF ~p.ok
             THEN [ret |-> None, errors |-> Append(errs, NotANumberMsg(city, sites_str))]
             ELSE IF IsNegative(p.val)
             THEN [ret |-> None, errors |-> Append(errs, NegativeMsg(city, p.val))]
             ELSE [ret |-> CleanRecord(city, region, p.val),
                   errors |-> IF IsOutlier(p.val)
                              THEN Append(errs, OutlierMsg(city, p.val))
                              ELSE errs]

\* the body of clean_row from the city check on (lines 61-92), with the
\* three fields stripped
ValidateRow(errs, city, region, sites_str) ==
    IF city = <<>> \/ Lower(city) = UnknownCity
    THEN [ret |-> None, errors |-> Append(errs, InvalidCityMsg(city))]
    ELSE IF region = <<>> \/ Lower(region) = InvalidRegion
    THEN [ret |-> None, errors |-> Append(errs, InvalidRegionMsg(city, region))]
    ELSE LET p == ParseInt(sites_str)
         IN  IF ~p.ok
             THEN [ret |-> None, errors |-> Append(errs, NotANumberMsg(city, sites_str))]
             ELSE IF IsNegative(p.val)
             THEN [ret |-> None, errors |-> Append(errs, NegativeMsg(city, p.val))]
             ELSE [ret |-> CleanRecord(city, region, p.val),
                   errors |-> IF IsOutlier(p.val)
                              THEN Append(errs, OutlierMsg(city, p.val))
                              ELSE errs]

\* clean_row(row) on a log errs: the value returned and the log afterwards.
\* The three .strip() calls of lines 57-59 run before any check; on a field
\* that is None they raise AttributeError, which the outer except turns into
\* one "Error cleaning row" entry.
CleanRowOp(errs, row) ==
    IF row.City = Missing \/ row.Region = Missing \/ row.Sites = Missing
    THEN [ret |-> None, errors |-> Append(errs, RowErrorMsg(row))]
    ELSE ValidateRow(errs, Strip(row.City), Strip(row.Region), Strip(row.Sites))

-----------------------------------------------------------------------------
(* Inputs *)

S_Empty == <<>>
S_Blank == <<" ", " ">>
S_Accra == <<"A","c","c","r","a">>
S_AccraPadded == <<" ","A","c","c","r","a"," ">>
S_Kumasi == <<"K","u","m","a","s","i">>
S_UnknownCity == <<"U","n","k","n","o","w","n"," ","C","i","t","y">>
S_UnknownCityUpper == <<" ","U","N","K","N","O","W","N"," ","C","I","T","Y">>
S_Ashanti == <<"A","s","h","a","n","t","i">>
S_AshantiLower == <<"a","s","h","a","n","t","i">>
S_AshantiPadded == <<"\t","A","s","h","a","n","t","i"," ">>
S_Western == <<"W","e","s","t","e","r","n">>
S_InvalidRegion == <<"I","n","v","a","l","i","d"," ","R","e","g","i","o","n">>
S_InvalidRegionLower == <<"i","n","v","a","l","i","d"," ","r","e","g","i","o","n","\n">>

RawCities == {S_Empty, S_Blank, S_Accra, S_AccraPadded, S_UnknownCity,
              S_UnknownCityUpper}
RawRegions == {S_Empty, S_Ashanti, S_AshantiPadded, S_InvalidRegion,
               S_InvalidRegionLower}
RawSites == {<<>>, <<"a","b","c">>, <<"1",".","5">>, <<"0">>, <<"1">>,
             <<"1","0">>, <<"1","1">>, <<"2","0","0">>, <<"2","0","1">>,
             <<"-","1">>, <<"-","0">>, <<"+","5">>, <<" ","3","0"," ">>,
             <<"1","_","0">>, <<"_","1">>, <<"1","0","0","0">>}

RawRow(city, region, sites) == [City |-> city, Region |-> region, Sites |-> sites]
\* rows of lines that have all three fields
FullRows == {RawRow(c, r, s) : c \in RawCities, r \in RawRegions, s \in RawSites}
\* rows of lines with one or two fields: the trailing fields are None
ShortRows == {RawRow(c, Missing, Missing) : c \in RawCities}
             \cup {RawRow(c, r, Missing) : c \in RawCities, r \in RawRegions}
RawRows == FullRows \cup ShortRows

\* the entry load_csv appends when the file does not exist (line 33)
FileNotFoundMsg == [msg |-> "File not found"]

-----------------------------------------------------------------------------
(* A direct call of clean_row on a new analyzer, as the unit tests make it *)

\* no pipeline running and an empty database
InitRest ==
    /\ pc = "idle"
    /\ results = EmptyDict
    /\ session = "none"
    /\ tx = NoTx
    /\ analysis_runs = <<>>
    /\ city_data = <<>>
    /\ cities_exceeding_threshold = <<>>

InitClean ==
    /\ raw_data = <<>>
    /\ cleaned_data = <<>>
    /\ errors \in {<<>>, <<FileNotFoundMsg>>}
    /\ op = "init"
    /\ arg = None
    /\ ret = None
    /\ InitRest

CleanRowCall(row) ==
    /\ LET r == CleanRowOp(errors, row)
       IN  /\ errors' = r.errors
           /\ ret' = r.ret
    /\ op' = "clean_row"
    /\ arg' = row
    /\ UNCHANGED <<raw_data, cleaned_data, mainVars, dbVars>>

\* one call per analyzer: each test builds its own GalamsayAnalyzer
NextClean == \E row \in RawRows : op = "init" /\ CleanRowCall(row)

SpecClean == InitClean /\ [][NextClean]_vars

-----------------------------------------------------------------------------
(* GalamsayAnalyzer.load_csv and clean_data *)

\* what load_csv finds at csv_file_path
NoFile == [exists |-> FALSE, readable |-> FALSE, rows |-> <<>>]
Unreadable == [exists |-> TRUE, readable |-> FALSE, rows |-> <<>>]
CsvFile(rows) == [exists |-> TRUE, readable |-> TRUE, rows |-> rows]

\* the entry load_csv appends when open() or the reader raises (line 43)
LoadErrorMsg == [msg |-> "Error loading CSV"]
\* the entry clean_data appends when raw_data is empty (line 102)
NoDataMsg == [msg |-> "No data to clean. Load CSV first."]
\* the entry analyze appends when cleaned_data is empty (line 120)
NoCleanedDataMsg == [msg |-> "No cleaned data to analyze"]

\* a load_csv that empties raw_data when the file is missing
LoadCsvOp_ClearsRaw(raw, errs, file) ==
    IF ~file.exists
    THEN [ret |-> FALSE, raw_data |-> <<>>, errors |-> Append(errs, FileNotFoundMsg)]
    ELSE IF ~file.readable
    THEN [ret |-> FALSE, raw_data |-> raw, errors |-> Append(errs, LoadErrorMsg)]
    ELSE [ret |-> TRUE, raw_data |-> file.rows, errors |-> errs]

\* load_csv: the value returned, raw_data and the log afterwards
LoadCsvOp(raw, errs, file) ==
    IF ~file.exists
    THEN [ret |-> FALSE, raw_data |-> raw, errors |-> Append(errs, FileNotFoundMsg)]
    ELSE IF ~file.readable
    THEN [ret |-> FALSE, raw_data |-> raw, errors |-> Append(errs, LoadErrorMsg)]
    ELSE [ret |-> TRUE, raw_data |-> file.rows, errors |-> errs]

\* a loop that puts each accepted row in front of the rows before it
RECURSIVE CleanLoop_Prepends(_, _, _)
CleanLoop_Prepends(rows, acc, errs) ==
    IF rows = <<>> THEN [cleaned_data |-> acc, errors |-> errs]
    ELSE LET r == CleanRowOp(errs, Head(rows))
         IN  CleanLoop_Prepends(Tail(rows),
                                IF r.ret # None THEN <<r.ret>> \o acc ELSE acc,
                                r.errors)

\* the loop of clean_data (lines 105-109): acc is cleaned_data so far
RECURSIVE CleanLoop(_, _, _)
CleanLoop(rows, acc, errs) ==
    IF rows = <<>> THEN [cleaned_data |-> acc, errors |-> errs]
    ELSE LET r == CleanRowOp(errs, Head(rows))
         IN  CleanLoop(Tail(rows),
                       IF r.ret # None THEN Append(acc, r.ret) ELSE acc,
                       r.errors)

\* a clean_data that starts a new log as it starts a new cleaned_data
CleanDataOp_ResetsLog(raw, cleaned, errs) ==
    IF raw = <<>>
    THEN [ret |-> FALSE, cleaned_data |-> cleaned, errors |-> <<NoDataMsg>>]
    ELSE LET r == CleanLoop(raw, <<>>, <<>>)
         IN  [ret |-> TRUE, cleaned_data |-> r.cleaned_data, errors |-> r.errors]

\* clean_data: the value returned, cleaned_data and the log afterwards
CleanDataOp(raw, cleaned, errs) ==
    IF raw = <<>>
    THEN [ret |-> FALSE, cleaned_data |-> cleaned, errors |-> Append(errs, NoDataMsg)]
    ELSE LET r == CleanLoop(raw, <<>>, errs)
         IN  [ret |-> TRUE, cleaned_data |-> r.cleaned_data, errors |-> r.errors]

-----------------------------------------------------------------------------
(* GalamsayAnalyzer.analyze *)

Threshold == 10

\* sum(row['sites'] for row in rows) (line 124)
RECURSIVE SumSites(_)
SumSites(rows) ==
    IF rows = <<>> THEN 0 ELSE Head(rows).sites + SumSites(Tail(rows))

\* region_totals is a dict: a sequence of [region, total] in insertion order

\* region_totals[region] = row['sites'], dropping what the region had
RegionTotalsAdd_Overwrite(rt, row) ==
    IF \E i \in 1..Len(rt) : rt[i].region = row.region
    THEN [i \in 1..Len(rt) |->
            IF rt[i].region = row.region
            THEN [region |-> row.region, total |-> row.sites]
            ELSE rt[i]]
    ELSE Append(rt, [region |-> row.region, total |-> row.sites])

\* region_totals[region] = region_totals.get(region, 0) + row['sites'] (line 130)
RegionTotalsAdd(rt, row) ==
    IF \E i \in 1..Len(rt) : rt[i].region = row.region
    THEN [i \in 1..Len(rt) |->
            IF rt[i].region = row.region
            THEN [region |-> row.region, total |-> rt[i].total + row.sites]
            ELSE rt[i]]
    ELSE Append(rt, [region |-> row.region, total |-> row.sites])

\* the loop of lines 127-130
RECURSIVE GroupByRegion(_, _)
GroupByRegion(rows, rt) ==
    IF rows = <<>> THEN rt
    ELSE GroupByRegion(Tail(rows), RegionTotalsAdd(rt, Head(rows)))

\* max() keeping the last of several maximal entries
MaxStep_LastWins(best, next) == IF next.total >= best.total THEN next ELSE best

\* one step of max(region_totals, key=region_totals.get): the entry kept so
\* far is replaced only by a strictly greater one
MaxStep(best, next) == IF next.total > best.total THEN next ELSE best

RECURSIVE MaxEntryFrom(_, _)
MaxEntryFrom(best, rest) ==
    IF rest = <<>> THEN best
    ELSE MaxEntryFrom(MaxStep(best, Head(rest)), Tail(rest))

\* max(region_totals, key=region_totals.get) (line 133), rt not empty
MaxEntry(rt) == MaxEntryFrom(Head(rt), Tail(rt))

Exceeds_Inclusive(row) == row.sites >= Threshold

\* row['sites'] > threshold (line 141)
Exceeds(row) == row.sites > Threshold

\* [row for row in self.cleaned_data if row['sites'] > threshold] (line 141)
CitiesExceeding(rows) == SelectSeq(rows, Exceeds)

\* the floor division n // d
Quotient_Floor(n, d) == [num |-> n \div d, den |-> 1]

\* total_sites / len(region_totals) (line 137), kept as the exact quotient
Quotient(n, d) == [num |-> n, den |-> d]

\* analyze: the value returned and the log afterwards
AnalyzeOp(cleaned, errs) ==
    IF cleaned = <<>>
    THEN [ret |-> EmptyDict, errors |-> Append(errs, NoCleanedDataMsg)]
    ELSE LET total_sites == SumSites(cleaned)
             region_totals == GroupByRegion(cleaned, <<>>)
             top == MaxEntry(region_totals)
         IN  [ret |-> [total_sites |-> total_sites,
                       region_with_highest |-> top.region,
                       highest_count |-> top.total,
                       avg_per_region |-> Quotient(total_sites, Len(region_totals)),
                       cities_exceeding_threshold |-> CitiesExceeding(cleaned),
                       region_totals |-> region_totals,
                       cleaned_data |-> cleaned],
              errors |-> errs]

-----------------------------------------------------------------------------
(* The analyzer driven as the tests of TestAnalysis drive it:             *)
(* load_csv, clean_data, analyze                                           *)

MaxRows == 3
MaxLog == 4

AnalysisRegions == {S_Ashanti, S_AshantiLower}
AnalysisSites == {<<"1","0">>, <<"1","1">>, <<"2","5">>}
AnalysisRows ==
    {RawRow(S_Accra, r, s) : r \in AnalysisRegions, s \in AnalysisSites}
    \cup {RawRow(S_Kumasi, S_Ashanti, <<"1","1">>),
          RawRow(S_Kumasi, S_Western, <<"1","1">>),
          RawRow(S_UnknownCity, S_Ashanti, <<"1","1">>)}

RECURSIVE SeqsUpTo(_, _)
SeqsUpTo(S, n) ==
    IF n = 0 THEN {<<>>}
    ELSE LET shorter == SeqsUpTo(S, n - 1)
         IN  shorter \cup {Append(q, x) : q \in {t \in shorter : Len(t) = n - 1}, x \in S}

AnalysisFiles == {NoFile, Unreadable} \cup {CsvFile(rows) : rows \in SeqsUpTo(AnalysisRows, MaxRows)}

InitAnalyzer ==
    /\ raw_data = <<>>
    /\ cleaned_data = <<>>
    /\ errors = <<>>
    /\ op = "init"
    /\ arg = None
    /\ ret = None
    /\ InitRest

LoadCsv(file) ==
    /\ LET r == LoadCsvOp(raw_data, errors, file)
       IN  /\ raw_data' = r.raw_data
           /\ errors' = r.errors
           /\ ret' = r.ret
    /\ op' = "load_csv"
    /\ arg' = file
    /\ UNCHANGED <<cleaned_data, mainVars, dbVars>>

CleanData ==
    /\ LET r == CleanDataOp(raw_data, cleaned_data, errors)
       IN  /\ cleaned_data' = r.cleaned_data
           /\ errors' = r.errors
           /\ ret' = r.ret
    /\ op' = "clean_data"
    /\ arg' = None
    /\ UNCHANGED <<raw_data, mainVars, dbVars>>

\* an analyze that takes the records out of cleaned_data as it reads them
Analyze_ConsumesCleaned ==
    /\ LET r == AnalyzeOp(cleaned_data, errors)
       IN  /\ errors' = r.errors
           /\ ret' = r.ret
    /\ cleaned_data' = <<>>
    /\ op' = "analyze"
    /\ arg' = None
    /\ UNCHANGED <<raw_data, mainVars, dbVars>>

Analyze ==
    /\ LET r == AnalyzeOp(cleaned_data, errors)
       IN  /\ errors' = r.errors
           /\ ret' = r.ret
    /\ op' = "analyze"
    /\ arg' = None
    /\ UNCHANGED <<raw_data, cleaned_data, mainVars, dbVars>>

NextAnalyze ==
    \/ \E file \in AnalysisFiles : op = "init" /\ LoadCsv(file)
    \/ op = "load_csv" /\ CleanData
    \/ op \in {"clean_data", "analyze"} /\ Len(errors) < MaxLog /\ Analyze

SpecAnalyze == InitAnalyzer /\ [][NextAnalyze]_vars

-----------------------------------------------------------------------------
(* save_analysis_to_database *)

\* the three tables as one value
Store == [runs |-> analysis_runs, cities |-> city_data,
          exceeding |-> cities_exceeding_threshold]

\* round(avg, 2), in hundredths: the quotient times 100 rounded to the
\* nearest integer, to the even one when it lies half-way
Round2(q) ==
    LET n == 100 * q.num
        lo == n \div q.den
        r2 == 2 * (n % q.den)
    IN  IF r2 > q.den THEN lo + 1
        ELSE IF r2 < q.den THEN lo
        ELSE IF lo % 2 = 0 THEN lo ELSE lo + 1

RECURSIVE MaxId(_)
MaxId(runs) ==
    IF runs = <<>> THEN 0
    ELSE LET m == MaxId(Tail(runs))
         IN  IF Head(runs).id > m THEN Head(runs).id ELSE m

\* an id that a stored run may already have
NextRunId_Reused(runs) == IF runs = <<>> THEN 1 ELSE MaxId(runs)

\* the integer primary key given to a new row of analysis_runs at flush:
\* one more than the greatest id in the table (models.py line 21)
NextRunId(runs) == MaxId(runs) + 1

\* AnalysisRun(...) of lines 167-174
NewRun(res, id, ts) ==
    [id |-> id,
     timestamp |-> ts,
     total_galamsay_sites |-> res.total_sites,
     region_with_highest_sites |-> res.region_with_highest,
     highest_sites_count |-> res.highest_count,
     average_sites_per_region |-> Round2(res.avg_per_region),
     status |-> "success"]

\* CityData(...) of lines 180-185
CityRow(id, row) ==
    [analysis_run_id |-> id, city |-> row.city, region |-> row.region,
     galamsay_sites |-> row.sites]

\* an exceeding row that carries the threshold of the aggregator plus one
ExceedsRow_OtherThreshold(id, row) ==
    [analysis_run_id |-> id, city |-> row.city, region |-> row.region,
     galamsay_sites |-> row.sites, threshold |-> Threshold + 1]

\* CityExceedsThreshold(...) of lines 190-196
ExceedsRow(id, row) ==
    [analysis_run_id |-> id, city |-> row.city, region |-> row.region,
     galamsay_sites |-> row.sites, threshold |-> 10]

\* session.commit() (line 199): everything the session added becomes
\* visible at once
Committed(store, t) ==
    [runs |-> Append(store.runs, t.run),
     cities |-> store.cities \o t.cities,
     exceeding |-> store.exceeding \o t.exceeding]

\* a failed save that leaves its flushed parent row in the table
RolledBack_KeepsParent(store, t) ==
    IF t.flushed THEN [store EXCEPT !.runs = Append(store.runs, t.run)] ELSE store

\* the tables after the except branch (lines 205-207): the session is
\* dropped without a commit, so the database discards what it added
RolledBack(store, t) == store

-----------------------------------------------------------------------------
(* main *)

MaxRuns == 2

Timestamps == {1, 2}

Row25 == RawRow(S_AccraPadded, S_Ashanti, <<"2","5">>)
Row10 == RawRow(S_Kumasi, S_AshantiLower, <<"1","0">>)
Row11 == RawRow(S_Kumasi, S_Western, <<"1","1">>)
BadRow == RawRow(S_UnknownCity, S_Ashanti, <<"1","1">>)

PipelineFiles ==
    {NoFile, CsvFile(<<>>), CsvFile(<<BadRow>>),
     CsvFile(<<Row25, BadRow, Row10>>), CsvFile(<<Row11>>)}

Init ==
    /\ raw_data = <<>>
    /\ cleaned_data = <<>>
    /\ errors = <<>>
    /\ op = "init"
    /\ arg = None
    /\ ret = None
    /\ InitRest

Proceeds_Always(res) == TRUE

\* "if not results: return" (lines 229-231) lets main go on
Proceeds(res) == res # EmptyDict

\* lines 217-220: a new analyzer, load_csv
MainLoad(file) ==
    /\ pc = "idle"
    /\ Len(analysis_runs) < MaxRuns
    /\ LET r == LoadCsvOp(<<>>, <<>>, file)
       IN  /\ raw_data' = r.raw_data
           /\ errors' = r.errors
           /\ ret' = r.ret
           /\ pc' = IF r.ret THEN "loaded" ELSE "exit"
    /\ cleaned_data' = <<>>
    /\ op' = "load_csv"
    /\ arg' = file
    /\ results' = EmptyDict
    /\ session' = "none"
    /\ tx' = NoTx
    /\ UNCHANGED dbVars

\* lines 223-225
MainClean ==
    /\ pc = "loaded"
    /\ LET r == CleanDataOp(raw_data, cleaned_data, errors)
       IN  /\ cleaned_data' = r.cleaned_data
           /\ errors' = r.errors
           /\ ret' = r.ret
           /\ pc' = IF r.ret THEN "cleaned" ELSE "exit"
    /\ op' = "clean_data"
    /\ arg' = None
    /\ UNCHANGED <<raw_data, results, session, tx, dbVars>>

\* lines 228-250: analyze, and the report when there is a result
MainAnalyze ==
    /\ pc = "cleaned"
    /\ LET r == AnalyzeOp(cleaned_data, errors)
       IN  /\ errors' = r.errors
           /\ ret' = r.ret
           /\ results' = r.ret
           /\ pc' = IF Proceeds(r.ret) THEN "analyzed" ELSE "exit"
    /\ op' = "analyze"
    /\ arg' = None
    /\ UNCHANGED <<raw_data, cleaned_data, session, tx, dbVars>>

\* how far a save had got: the argument recorded with its steps
Progress(t) ==
    [flushed |-> t.flushed, cities_added |-> Len(t.cities),
     exceeding_added |-> Len(t.exceeding)]

\* lines 161-164 raise (the engine or the tables cannot be set up): no
\* session exists yet; save returns False
SaveSetupFail ==
    /\ pc = "analyzed"
    /\ op' = "save"
    /\ arg' = Progress(NoTx)
    /\ ret' = FALSE
    /\ pc' = "exit"
    /\ UNCHANGED <<analyzerVars, results, session, tx, dbVars>>

\* lines 161-176: the session is made, the parent row added and flushed,
\* which gives it its id. Reading a key of an empty results raises KeyError
\* (line 169), caught by the except branch.
SaveBegin(ts) ==
    /\ pc = "analyzed"
    /\ IF results = EmptyDict
       THEN /\ session' = "abandoned"
            /\ tx' = NoTx
            /\ op' = "save"
            /\ arg' = Progress(NoTx)
            /\ ret' = FALSE
            /\ pc' = "exit"
       ELSE /\ session' = "open"
            /\ tx' = [flushed |-> TRUE,
                      run |-> NewRun(results, NextRunId(analysis_runs), ts),
                      cities |-> <<>>, exceeding |-> <<>>]
            /\ op' = "save_step"
            /\ arg' = Progress(tx')
            /\ ret' = None
            /\ pc' = "saving"
    /\ UNCHANGED <<analyzerVars, results, dbVars>>

\* one turn of the loop of lines 179-186
SaveAddCity ==
    /\ pc = "saving"
    /\ Len(tx.cities) < Len(results.cleaned_data)
    /\ tx' = [tx EXCEPT !.cities =
                Append(@, CityRow(tx.run.id, results.cleaned_data[Len(tx.cities) + 1]))]
    /\ op' = "save_step"
    /\ arg' = Progress(tx')
    /\ ret' = None
    /\ UNCHANGED <<analyzerVars, pc, results, session, dbVars>>

\* one turn of the loop of lines 189-197
SaveAddExceeding ==
    /\ pc = "saving"
    /\ Len(tx.cities) = Len(results.cleaned_data)
    /\ Len(tx.exceeding) < Len(results.cities_exceeding_threshold)
    /\ tx' = [tx EXCEPT !.exceeding =
                Append(@, ExceedsRow(tx.run.id,
                           results.cities_exceeding_threshold[Len(tx.exceeding) + 1]))]
    /\ op' = "save_step"
    /\ arg' = Progress(tx')
    /\ ret' = None
    /\ UNCHANGED <<analyzerVars, pc, results, session, dbVars>>

\* lines 199-204: commit, close, return True
SaveCommit ==
    /\ pc = "saving"
    /\ Len(tx.cities) = Len(results.cleaned_data)
    /\ Len(tx.exceeding) = Len(results.cities_exceeding_threshold)
    /\ LET st == Committed(Store, tx)
       IN  /\ analysis_runs' = st.runs
           /\ city_data' = st.cities
           /\ cities_exceeding_threshold' = st.exceeding
    /\ tx' = NoTx
    /\ session' = "closed"
    /\ op' = "save"
    /\ arg' = Progress(tx)
    /\ ret' = TRUE
    /\ pc' = "exit"
    /\ UNCHANGED <<analyzerVars, results>>

\* an exception anywhere in lines 175-199 (flush, an add, the commit):
\* the except branch prints and returns False; the session is neither
\* rolled back nor closed there
SaveFail ==
    /\ pc = "saving"
    /\ LET st == RolledBack(Store, tx)
       IN  /\ analysis_runs' = st.runs
           /\ city_data' = st.cities
           /\ cities_exceeding_threshold' = st.exceeding
    /\ tx' = NoTx
    /\ session' = "abandoned"
    /\ op' = "save"
    /\ arg' = Progress(tx)
    /\ ret' = FALSE
    /\ pc' = "exit"
    /\ UNCHANGED <<analyzerVars, results>>

\* main returns and the process ends: its analyzer, its results and what is
\* left of its session go with it
MainExit ==
    /\ pc = "exit"
    /\ pc' = "idle"
    /\ raw_data' = <<>>
    /\ cleaned_data' = <<>>
    /\ errors' = <<>>
    /\ results' = EmptyDict
    /\ session' = "none"
    /\ tx' = NoTx
    /\ op' = "exit"
    /\ arg' = None
    /\ ret' = None
    /\ UNCHANGED dbVars

Main ==
    \/ \E file \in PipelineFiles : MainLoad(file)
    \/ MainClean
    \/ MainAnalyze
    \/ SaveSetupFail
    \/ \E ts \in Timestamps : SaveBegin(ts)
    \/ SaveAddCity
    \/ SaveAddExceeding
    \/ SaveCommit
    \/ SaveFail
    \/ MainExit

-----------------------------------------------------------------------------
(* api.py: what the endpoints read *)

Http404(detail) == [status |-> 404, detail |-> detail]
Http200(body) == [status |-> 200, body |-> body]

\* a query string: analysis_id is Optional[int]
NoId == [has_id |-> FALSE, analysis_id |-> 0]
WithId(id) == [has_id |-> TRUE, analysis_id |-> id]

\* the rows of a table that belong to run id, in primary-key order
RowsOfRun(rows, id) == SelectSeq(rows, LAMBDA r : r.analysis_run_id = id)

\* session.query(AnalysisRun).filter(AnalysisRun.id == analysis_id).first()
RunById(runs, id) ==
    LET hits == SelectSeq(runs, LAMBDA r : r.id = id)
    IN  IF hits = <<>> THEN None ELSE Head(hits)

\* the rows that order_by(desc(AnalysisRun.timestamp)).first() may return:
\* a row with the greatest timestamp (SQL leaves the order of rows with
\* equal timestamps open); None when the table is empty
LatestRuns(runs) ==
    IF runs = <<>> THEN {None}
    ELSE {runs[i] : i \in {k \in 1..Len(runs) :
                             \A j \in 1..Len(runs) : runs[j].timestamp <= runs[k].timestamp}}

\* "if analysis_id:" (lines 201, 226, 252, 283, 312, 347)
IdGiven(q) == q.has_id /\ q.analysis_id # 0

\* lines 201-208, the same in every metric endpoint: the run a request is
\* answered from, or the 404 it raises; latest is what the latest-run query
\* returned
ResolveRun(runs, q, latest) ==
    IF IdGiven(q)
    THEN LET run == RunById(runs, q.analysis_id)
         IN  IF run = None
             THEN [found |-> FALSE, run |-> None, error |-> Http404("Analysis ID not found")]
             ELSE [found |-> TRUE, run |-> run, error |-> None]
    ELSE IF latest = None
         THEN [found |-> FALSE, run |-> None, error |-> Http404("No analysis runs found")]
         ELSE [found |-> TRUE, run |-> latest, error |-> None]

\* SQL LIKE: % matches any run of characters, _ any one character
RECURSIVE Like(_, _)
Like(str, pat) ==
    IF pat = <<>> THEN str = <<>>
    ELSE IF Head(pat) = "%"
         THEN Like(str, Tail(pat)) \/ (str # <<>> /\ Like(Tail(str), pat))
    ELSE IF str = <<>> THEN FALSE
    ELSE (Head(pat) = "_" \/ Head(pat) = Head(str)) /\ Like(Tail(str), Tail(pat))

\* column.ilike(name): lower(column) LIKE lower(name)
ILike(value, name) == Like(Lower(value), Lower(name))

\* sorted(rows, key=galamsay_sites, reverse=True): descending, rows of equal
\* count in their order in rows
RECURSIVE InsertBySites(_, _)
InsertBySites(sorted, x) ==
    IF sorted = <<>> THEN <<x>>
    ELSE IF Head(sorted).galamsay_sites >= x.galamsay_sites
         THEN <<Head(sorted)>> \o InsertBySites(Tail(sorted), x)
         ELSE <<x>> \o sorted

RECURSIVE SortedBySites(_, _)
SortedBySites(rows, sorted) ==
    IF rows = <<>> THEN sorted
    ELSE SortedBySites(Tail(rows), InsertBySites(sorted, Head(rows)))

RECURSIVE SumGalamsaySites(_)
SumGalamsaySites(rows) ==
    IF rows = <<>> THEN 0
    ELSE Head(rows).galamsay_sites + SumGalamsaySites(Tail(rows))

\* response models (lines 25-63)
CityDataResponse(r) ==
    [city |-> r.city, region |-> r.region, galamsay_sites |-> r.galamsay_sites]
CityExceedsThresholdResponse(r) ==
    [city |-> r.city, region |-> r.region, galamsay_sites |-> r.galamsay_sites,
     threshold |-> r.threshold]
MapSeq(rows, F(_)) == IF rows = <<>> THEN <<>> ELSE [i \in 1..Len(rows) |-> F(rows[i])]

AnalysisRunDetailResponse(store, run) ==
    [id |-> run.id,
     timestamp |-> run.timestamp,
     total_galamsay_sites |-> run.total_galamsay_sites,
     region_with_highest_sites |-> run.region_with_highest_sites,
     highest_sites_count |-> run.highest_sites_count,
     average_sites_per_region |-> run.average_sites_per_region,
     status |-> run.status,
     city_data |-> MapSeq(RowsOfRun(store.cities, run.id), CityDataResponse),
     cities_exceeding_threshold |->
        MapSeq(RowsOfRun(store.exceeding, run.id), CityExceedsThresholdResponse)]

\* the orders in which order_by(desc(timestamp)) may return all runs
RunsByTimestampDesc(runs) ==
    LET n == Len(runs)
        perms == {f \in [1..n -> 1..n] : \A i, j \in 1..n : f[i] = f[j] => i = j}
    IN  {[i \in 1..n |-> runs[f[i]]] :
            f \in {g \in perms :
                     \A i \in 1..(n - 1) :
                        runs[g[i]].timestamp >= runs[g[i + 1]].timestamp}}

\* a list_analyses that applies the limit before the offset
ListAnalysesResp_LimitFirst(ordered, limit, offset) ==
    LET first == SubSeq(ordered, 1, IF limit <= Len(ordered) THEN limit ELSE Len(ordered))
        page == SubSeq(first, offset + 1, Len(first))
    IN  IF page = <<>> THEN Http404("No analysis runs found") ELSE Http200(page)

\* GET /analyses (lines 115-138); ordered is the order the query returned
ListAnalysesResp(ordered, limit, offset) ==
    LET page == SubSeq(ordered, offset + 1,
                       IF offset + limit <= Len(ordered) THEN offset + limit
                       ELSE Len(ordered))
    IN  IF page = <<>> THEN Http404("No analysis runs found") ELSE Http200(page)

\* GET /analyses/latest (lines 141-164)
LatestAnalysisResp(store, latest) ==
    IF latest = None THEN Http404("No analysis runs found in database")
    ELSE Http200(AnalysisRunDetailResponse(store, latest))

\* GET /analyses/{analysis_id} (lines 167-188)
AnalysisDetailResp(store, id) ==
    LET run == RunById(store.runs, id)
    IN  IF run = None THEN Http404("Analysis run not found")
        ELSE Http200(AnalysisRunDetailResponse(store, run))

\* GET /metrics/total-sites (lines 191-216)
TotalSitesResp(store, q, latest) ==
    LET a == ResolveRun(store.runs, q, latest)
    IN  IF ~a.found THEN a.error
        ELSE Http200([total_galamsay_sites |-> a.run.total_galamsay_sites,
                      analysis_id |-> a.run.id,
                      timestamp |-> a.run.timestamp])

\* GET /metrics/region-highest (lines 219-242)
RegionHighestResp(store, q, latest) ==
    LET a == ResolveRun(store.runs, q, latest)
    IN  IF ~a.found THEN a.error
        ELSE Http200([region |-> a.run.region_with_highest_sites,
                      galamsay_sites |-> a.run.highest_sites_count,
                      analysis_id |-> a.run.id,
                      timestamp |-> a.run.timestamp])

\* GET /metrics/average-per-region (lines 245-267)
AveragePerRegionResp(store, q, latest) ==
    LET a == ResolveRun(store.runs, q, latest)
    IN  IF ~a.found THEN a.error
        ELSE Http200([average_sites_per_region |-> a.run.average_sites_per_region,
                      analysis_id |-> a.run.id,
                      timestamp |-> a.run.timestamp])

\* GET /metrics/cities-exceeding-threshold (lines 270-302); threshold 0
\* stands for no threshold given ("if threshold:" takes both alike)
CitiesExceedingResp(store, q, latest) ==
    LET a == ResolveRun(store.runs, q, latest)
    IN  IF ~a.found THEN a.error
        ELSE LET cities == RowsOfRun(store.exceeding, a.run.id)
                 kept == IF q.threshold # 0
                         THEN SelectSeq(cities, LAMBDA c : c.galamsay_sites > q.threshold)
                         ELSE cities
             IN  Http200(MapSeq(kept, CityExceedsThresholdResponse))

\* GET /city/{city_name} (lines 305-337)
CityResp(store, q, latest) ==
    LET a == ResolveRun(store.runs, q, latest)
    IN  IF ~a.found THEN a.error
        ELSE LET hits == SelectSeq(RowsOfRun(store.cities, a.run.id),
                                   LAMBDA c : ILike(c.city, q.name))
             IN  IF hits = <<>> THEN Http404("City not found in analysis")
                 ELSE Http200([city |-> Head(hits).city,
                               region |-> Head(hits).region,
                               galamsay_sites |-> Head(hits).galamsay_sites,
                               analysis_id |-> Head(hits).analysis_run_id,
                               timestamp |-> a.run.timestamp])

\* GET /region/{region_name} (lines 340-382)
RegionResp(store, q, latest) ==
    LET a == ResolveRun(store.runs, q, latest)
    IN  IF ~a.found THEN a.error
        ELSE LET region_cities == SelectSeq(RowsOfRun(store.cities, a.run.id),
                                            LAMBDA c : ILike(c.region, q.name))
                 total_sites == SumGalamsaySites(region_cities)
             IN  IF region_cities = <<>> THEN Http404("Region not found in analysis")
                 ELSE Http200([region |-> q.name,
                               total_sites |-> total_sites,
                               number_of_cities |-> Len(region_cities),
                               average_per_city |-> Quotient(total_sites, Len(region_cities)),
                               cities |-> MapSeq(SortedBySites(region_cities, <<>>),
                                                 LAMBDA c : [city |-> c.city,
                                                             galamsay_sites |-> c.galamsay_sites]),
                               analysis_id |-> a.run.id,
                               timestamp |-> a.run.timestamp])

\* GET /health (lines 389-408)
HealthResp(store) ==
    Http200([status |-> "healthy", database |-> "connected",
             analysis_runs |-> Len(store.runs)])

-----------------------------------------------------------------------------
(* Requests to the API. An endpoint opens a session, reads the committed    *)
(* tables and closes the session in its finally clause: one step.           *)

IdArgs == {NoId} \cup {WithId(id) : id \in 0..MaxRuns}
ThresholdArgs == {0, 20}
CityNames == {<<"a","c","c","r","a">>, <<"K","u","m","a","s","_">>, <<"T","e","m","a">>}
RegionNames ==
    {S_AshantiLower, S_Western, <<"W","e","s","t","%">>, <<"V","o","l","t","a">>}
Limits == {1, 2}
Offsets == {0, 1}

Respond(name, q, response) ==
    /\ op' = name
    /\ arg' = q
    /\ ret' = response
    /\ UNCHANGED <<analyzerVars, mainVars, dbVars>>

ListAnalyses ==
    \E limit \in Limits, offset \in Offsets :
        \E ordered \in RunsByTimestampDesc(analysis_runs) :
            Respond("list_analyses", [limit |-> limit, offset |-> offset],
                    ListAnalysesResp(ordered, limit, offset))

GetLatestAnalysis ==
    \E latest \in LatestRuns(analysis_runs) :
        Respond("get_latest_analysis", NoId, LatestAnalysisResp(Store, latest))

GetAnalysisDetail ==
    \E id \in 0..MaxRuns :
        Respond("get_analysis_detail", WithId(id), AnalysisDetailResp(Store, id))

GetTotalSites ==
    \E q \in IdArgs, latest \in LatestRuns(analysis_runs) :
        Respond("get_total_sites", q, TotalSitesResp(Store, q, latest))

GetRegionWithHighestSites ==
    \E q \in IdArgs, latest \in LatestRuns(analysis_runs) :
        Respond("get_region_with_highest_sites", q, RegionHighestResp(Store, q, latest))

GetAveragePerRegion ==
    \E q \in IdArgs, latest \in LatestRuns(analysis_runs) :
        Respond("get_average_per_region", q, AveragePerRegionResp(Store, q, latest))

GetCitiesExceedingThreshold ==
    \E i \in IdArgs, t \in ThresholdArgs, latest \in LatestRuns(analysis_runs) :
        LET q == [has_id |-> i.has_id, analysis_id |-> i.analysis_id, threshold |-> t]
        IN  Respond("get_cities_exceeding_threshold", q,
                    CitiesExceedingResp(Store, q, latest))

GetCityData ==
    \E i \in IdArgs, n \in CityNames, latest \in LatestRuns(analysis_runs) :
        LET q == [has_id |-> i.has_id, analysis_id |-> i.analysis_id, name |-> n]
        IN  Respond("get_city_data", q, CityResp(Store, q, latest))

GetRegionData ==
    \E i \in IdArgs, n \in RegionNames, latest \in LatestRuns(analysis_runs) :
        LET q == [has_id |-> i.has_id, analysis_id |-> i.analysis_id, name |-> n]
        IN  Respond("get_region_data", q, RegionResp(Store, q, latest))

HealthCheck == Respond("health_check", NoId, HealthResp(Store))

\* no execution of the pipeline is under way
Idle == pc = "idle"

\* executions of the pipeline and requests to the API, one after another
Next ==
    \/ Main
    \/ Idle /\ ListAnalyses
    \/ Idle /\ GetLatestAnalysis
    \/ Idle /\ GetAnalysisDetail
    \/ Idle /\ GetTotalSites
    \/ Idle /\ GetRegionWithHighestSites
    \/ Idle /\ GetAveragePerRegion
    \/ Idle /\ GetCitiesExceedingThreshold
    \/ Idle /\ GetCityData
    \/ Idle /\ GetRegionData
    \/ Idle /\ HealthCheck

Spec == Init /\ [][Next]_vars

\* the pipeline and the API server are two processes on one database:
\* requests for a run with its child rows arrive between any two steps of
\* save_analysis_to_database
NextConcurrent == Main \/ GetLatestAnalysis \/ GetAnalysisDetail \/ HealthCheck

SpecConcurrent == Init /\ [][NextConcurrent]_vars

-----------------------------------------------------------------------------
(* One analyzer whose methods are called in any order, the file at        *)
(* csv_file_path being replaced or removed between the calls               *)

Row201 == RawRow(S_Accra, S_Western, <<"2","0","1">>)

CallFiles ==
    {NoFile, CsvFile(<<>>), CsvFile(<<Row25, BadRow, Row10>>), CsvFile(<<BadRow, Row201>>)}
CallRows == {BadRow, Row11}

\* a second call of analyze whose caller has kept the result of the call
\* before in results, and whose totals go on from that result
AnalyzeAgain_RunningTotal ==
    /\ op \in {"analyze", "analyze_again"}
    /\ results' = ret
    /\ LET r == AnalyzeOp(cleaned_data, errors)
       IN  /\ errors' = r.errors
           /\ ret' = IF r.ret = EmptyDict \/ ret = EmptyDict THEN r.ret
                     ELSE [r.ret EXCEPT !.total_sites = @ + ret.total_sites]
    /\ op' = "analyze_again"
    /\ arg' = None
    /\ UNCHANGED <<raw_data, cleaned_data, pc, session, tx, dbVars>>

\* a second call of analyze, with no other call since the call before; the
\* caller has kept the result of the call before in results
AnalyzeAgain ==
    /\ op \in {"analyze", "analyze_again"}
    /\ results' = ret
    /\ LET r == AnalyzeOp(cleaned_data, errors)
       IN  /\ errors' = r.errors
           /\ ret' = r.ret
    /\ op' = "analyze_again"
    /\ arg' = None
    /\ UNCHANGED <<raw_data, cleaned_data, pc, session, tx, dbVars>>

\* the log has room for the entries of one more call
Bounded == Len(errors) < MaxLog

NextCalls ==
    \/ \E file \in CallFiles : Bounded /\ LoadCsv(file)
    \/ \E row \in CallRows : Bounded /\ CleanRowCall(row)
    \/ Bounded /\ CleanData
    \/ Bounded /\ Analyze
    \/ Bounded /\ AnalyzeAgain

SpecCalls == InitAnalyzer /\ [][NextCalls]_vars

-----------------------------------------------------------------------------
(* Properties of clean_row, checked under SpecClean *)

\* equality of two strings ignoring letter case
EqIgnoreCase(a, b) ==
    /\ Len(a) = Len(b)
    /\ \A i \in 1..Len(a) : LowerChar(a[i]) = LowerChar(b[i])

HasMissingField(row) ==
    row.City = Missing \/ row.Region = Missing \/ row.Sites = Missing

CityRuleFails(city) == city = <<>> \/ EqIgnoreCase(city, UnknownCity)
RegionRuleFails(region) == region = <<>> \/ EqIgnoreCase(region, InvalidRegion)

\* the condition under which a row is to be accepted
Acceptable(row) ==
    /\ ~HasMissingField(row)
    /\ ~CityRuleFails(Strip(row.City))
    /\ ~RegionRuleFails(Strip(row.Region))
    /\ ParseInt(row.Sites).ok
    /\ ParseInt(row.Sites).val >= 0

\* C1: clean_row returns a record if and only if the trimmed city is
\* non-empty and is not 'unknown city' in any letter case, the trimmed
\* region is non-empty and is not 'invalid region' in any letter case, and
\* the site count parses as an integer that is >= 0; the record returned
\* holds the trimmed city, the trimmed region and the parsed integer;
\* otherwise clean_row returns None.
C1_CleanRowAcceptsIff ==
    op = "clean_row" =>
        IF Acceptable(arg)
        THEN ret = [city |-> Strip(arg.City), region |-> Strip(arg.Region),
                    sites |-> ParseInt(arg.Sites).val]
        ELSE ret = None

C1_Witness ==
    /\ op = "clean_row"
    /\ arg = RawRow(S_AccraPadded, S_AshantiPadded, <<" ","3","0"," ">>)
    /\ ret = [city |-> S_Accra, region |-> S_Ashanti, sites |-> 30]

\* the entry of the earliest failing rule, for the three fields as strings
FirstFailure(city, region, sites_str) ==
    IF CityRuleFails(city) THEN InvalidCityMsg(city)
    ELSE IF RegionRuleFails(region) THEN InvalidRegionMsg(city, region)
    ELSE IF ~ParseInt(sites_str).ok THEN NotANumberMsg(city, sites_str)
    ELSE NegativeMsg(city, ParseInt(sites_str).val)

\* a field of a raw row as a string, an absent field being the empty string
\* (the default of row.get)
FieldText(f) == IF f = Missing THEN <<>> ELSE Strip(f)

\* C2 as stated: every rejected row appends exactly one entry to the log,
\* the entry of the earliest failing rule in the order city, region,
\* not-a-number, negative.
C2_FirstFailureWins ==
    [][(op' = "clean_row" /\ ret' = None) =>
         errors' = Append(errors, FirstFailure(FieldText(arg'.City),
                                               FieldText(arg'.Region),
                                               FieldText(arg'.Sites)))]_vars

\* C2 as amended: every rejected row appends exactly one entry to the log;
\* for a row whose three fields are present it is the entry of the earliest
\* failing rule in the order city, region, not-a-number, negative; for a row
\* with a missing (None) field it is the "Error cleaning row" entry,
\* whichever rules the present fields fail.
C2_FirstFailureWinsOnFullRows ==
    [][(op' = "clean_row" /\ ret' = None) =>
         errors' = Append(errors,
                          IF HasMissingField(arg') THEN RowErrorMsg(arg')
                          ELSE FirstFailure(Strip(arg'.City), Strip(arg'.Region),
                                            Strip(arg'.Sites)))]_vars

\* a row with an invalid city and a non-numeric count has logged only the
\* invalid-city entry, after the entry the log already held
C2_Witness ==
    /\ op = "clean_row"
    /\ arg = RawRow(S_UnknownCityUpper, S_Ashanti, <<"a","b","c">>)
    /\ ret = None
    /\ errors = <<FileNotFoundMsg,
                  InvalidCityMsg(<<"U","N","K","N","O","W","N"," ","C","I","T","Y">>)>>

PassesCityAndRegion(row) ==
    /\ ~HasMissingField(row)
    /\ ~CityRuleFails(Strip(row.City))
    /\ ~RegionRuleFails(Strip(row.Region))

\* C3: a row that passes the city and region rules is accepted and appends
\* nothing to the log when its count is 0 or in 1..200, and is accepted and
\* appends exactly one warning entry when its count is 201 or more.
C3_CountBoundaries ==
    [][(op' = "clean_row" /\ PassesCityAndRegion(arg') /\ ParseInt(arg'.Sites).ok) =>
         LET n == ParseInt(arg'.Sites).val
         IN  /\ n = 0 => (ret' # None /\ ret'.sites = 0 /\ errors' = errors)
             /\ (1 <= n /\ n <= 200) => (ret' # None /\ ret'.sites = n /\ errors' = errors)
             /\ n >= 201 =>
                  /\ ret' # None /\ ret'.sites = n
                  /\ Len(errors') = Len(errors) + 1
                  /\ SubSeq(errors', 1, Len(errors)) = errors
                  /\ errors'[Len(errors')].msg = "WARNING: Possible outlier"]_vars

C3_Witness ==
    /\ op = "clean_row"
    /\ arg = RawRow(S_Accra, S_Ashanti, <<"2","0","1">>)
    /\ ret = [city |-> S_Accra, region |-> S_Ashanti, sites |-> 201]
    /\ errors = <<OutlierMsg(S_Accra, 201)>>

-----------------------------------------------------------------------------
(* Properties of analyze, checked under SpecAnalyze *)

\* the state after a call of analyze that returned a result
Analyzed == op = "analyze" /\ ret # EmptyDict

RegionsOf(rows) == {rows[i].region : i \in 1..Len(rows)}

\* the sum of the site counts of the records of rows in region R
RECURSIVE SitesInRegion(_, _)
SitesInRegion(rows, R) ==
    IF rows = <<>> THEN 0
    ELSE (IF Head(rows).region = R THEN Head(rows).sites ELSE 0)
         + SitesInRegion(Tail(rows), R)

RECURSIVE SumTotals(_)
SumTotals(rt) == IF rt = <<>> THEN 0 ELSE Head(rt).total + SumTotals(Tail(rt))

\* C4: for a non-empty sequence of clean records, region_totals has exactly
\* one key per distinct region string (case-sensitive), mapped to the sum of
\* the site counts of the records with that region, and total_sites equals
\* the sum of the values of region_totals.
C4_TotalIsSumOfRegionTotals ==
    Analyzed =>
        LET rt == ret.region_totals
        IN  /\ {rt[i].region : i \in 1..Len(rt)} = RegionsOf(cleaned_data)
            /\ \A i, j \in 1..Len(rt) : rt[i].region = rt[j].region => i = j
            /\ \A i \in 1..Len(rt) :
                  rt[i].total = SitesInRegion(cleaned_data, rt[i].region)
            /\ ret.total_sites = SumTotals(rt)

\* two records of 'Ashanti' and one of 'ashanti': two keys, 36 + 10 = 46
C4_Witness ==
    /\ Analyzed
    /\ Len(cleaned_data) = 3
    /\ ret.region_totals = <<[region |-> S_Ashanti, total |-> 36],
                             [region |-> S_AshantiLower, total |-> 10]>>
    /\ ret.total_sites = 46

\* the position of the first record of region R in rows
FirstRecordOf(rows, R) ==
    CHOOSE i \in 1..Len(rows) :
        /\ rows[i].region = R
        /\ \A j \in 1..(i - 1) : rows[j].region # R

\* C5: highest_count is the maximum value of region_totals,
\* region_with_highest is a region holding it, and among several regions
\* holding it the one whose first record comes earliest in the input.
C5_TopRegionFirstInserted ==
    Analyzed =>
        LET rt == ret.region_totals
            top == ret.region_with_highest
        IN  /\ \A i \in 1..Len(rt) : rt[i].total <= ret.highest_count
            /\ \E i \in 1..Len(rt) :
                  rt[i].region = top /\ rt[i].total = ret.highest_count
            /\ \A i \in 1..Len(rt) :
                  rt[i].total = ret.highest_count =>
                      FirstRecordOf(cleaned_data, top)
                          <= FirstRecordOf(cleaned_data, rt[i].region)

\* 'ashanti' and 'Ashanti' both total 11; 'ashanti' came first
C5_Witness ==
    /\ Analyzed
    /\ cleaned_data[1].region = S_AshantiLower
    /\ ret.region_totals = <<[region |-> S_AshantiLower, total |-> 11],
                             [region |-> S_Ashanti, total |-> 11]>>
    /\ ret.region_with_highest = S_AshantiLower
    /\ ret.highest_count = 11

\* the records of rows with more than 10 sites, in the order of rows
RECURSIVE Over10(_)
Over10(rows) ==
    IF rows = <<>> THEN <<>>
    ELSE IF Head(rows).sites > 10 THEN <<Head(rows)>> \o Over10(Tail(rows))
    ELSE Over10(Tail(rows))

\* x put into the descending sequence sorted, behind the entries with a
\* count at least its own
RECURSIVE InsertDesc(_, _)
InsertDesc(sorted, x) ==
    IF sorted = <<>> THEN <<x>>
    ELSE IF Head(sorted).sites >= x.sites
         THEN <<Head(sorted)>> \o InsertDesc(Tail(sorted), x)
         ELSE <<x>> \o sorted

\* rows in descending order of site count, equal counts in their order in rows
RECURSIVE StableSortDesc(_, _)
StableSortDesc(rows, sorted) ==
    IF rows = <<>> THEN sorted
    ELSE StableSortDesc(Tail(rows), InsertDesc(sorted, Head(rows)))

\* C6 as stated: cities_exceeding_threshold holds exactly the records with a
\* site count > 10, sorted in descending order of site count, records of
\* equal count in their input order.
C6_ExceedingSortedDescending ==
    Analyzed =>
        ret.cities_exceeding_threshold = StableSortDesc(Over10(cleaned_data), <<>>)

\* C6 as amended: cities_exceeding_threshold holds exactly the records with
\* a site count > 10 (a record with count 10 is excluded), in their input
\* order.
C6_ExceedingInInputOrder ==
    Analyzed => ret.cities_exceeding_threshold = Over10(cleaned_data)

\* counts 10, 11, 25 in this order: 10 is left out, 11 stays before 25
C6_Witness ==
    /\ Analyzed
    /\ Len(cleaned_data) = 3
    /\ cleaned_data[1].sites = 10
    /\ Len(ret.cities_exceeding_threshold) = 2
    /\ ret.cities_exceeding_threshold[1].sites = 11
    /\ ret.cities_exceeding_threshold[2].sites = 25

-----------------------------------------------------------------------------
(* Properties of the pipeline and of the stored runs *)

IsPrefix(a, b) == Len(a) <= Len(b) /\ SubSeq(b, 1, Len(a)) = a

\* load_csv, clean_data and analyze have all succeeded, in this order, in
\* the invocation of main that is under way
StagesSucceeded ==
    /\ raw_data # <<>>
    /\ cleaned_data # <<>>
    /\ cleaned_data = CleanDataOp(raw_data, <<>>, <<>>).cleaned_data
    /\ results # EmptyDict
    /\ results = AnalyzeOp(cleaned_data, <<>>).ret

\* C7: when no record survives validation, analyze returns the empty result
\* and logs an error, and main stops there without calling
\* save_analysis_to_database; save is entered, and a run is stored, only
\* when load_csv, clean_data and analyze have all succeeded in this order in
\* the same invocation.
C7_NoSaveWithoutResult ==
    [][/\ (pc = "cleaned" /\ cleaned_data = <<>>) =>
            /\ op' = "analyze"
            /\ ret' = EmptyDict
            /\ results' = EmptyDict
            /\ errors' = Append(errors, NoCleanedDataMsg)
            /\ pc' = "exit"
            /\ session' = "none"
            /\ UNCHANGED dbVars
       /\ (session' # session /\ session' # "none") => (pc \in {"analyzed", "saving"})
       /\ (pc' = "saving" \/ op' = "save") => (pc \in {"analyzed", "saving"} /\ StagesSucceeded)
       /\ analysis_runs' # analysis_runs => (pc = "saving" /\ StagesSucceeded)]_vars

\* after one stored run, a file whose only row is rejected: analyze has
\* returned {} and logged, main is returning, and nothing was added
C7_Witness ==
    /\ pc = "exit"
    /\ op = "analyze"
    /\ ret = EmptyDict
    /\ raw_data = <<BadRow>>
    /\ cleaned_data = <<>>
    /\ errors = <<InvalidCityMsg(S_UnknownCity), NoCleanedDataMsg>>
    /\ session = "none"
    /\ Len(analysis_runs) = 1

\* the rows save_analysis_to_database is to store for a result, under run id
CityRowsOf(res, id) == MapSeq(res.cleaned_data, LAMBDA r : CityRow(id, r))
ExceedsRowsOf(res, id) == MapSeq(res.cities_exceeding_threshold, LAMBDA r : ExceedsRow(id, r))

\* a run with its child rows as a reader gets it is whole
WholeRun(body) ==
    /\ body.city_data # <<>>
    /\ SumGalamsaySites(body.city_data) = body.total_galamsay_sites
    /\ body.cities_exceeding_threshold =
          MapSeq(SelectSeq(body.city_data, LAMBDA c : c.galamsay_sites > 10),
                 LAMBDA c : [city |-> c.city, region |-> c.region,
                             galamsay_sites |-> c.galamsay_sites, threshold |-> 10])

\* C8: the tables change only in the one step in which
\* save_analysis_to_database commits, and then by the new run together with
\* all of its city rows and all of its exceeding-threshold rows; a save that
\* returns False, wherever it failed, leaves the tables as they were; and a
\* reader, also one that reads while a save is under way, gets every run
\* with its whole set of child rows.
C8_SaveIsAllOrNothing ==
    [][/\ Store' # Store =>
            /\ pc = "saving" /\ op' = "save" /\ ret' = TRUE
            /\ Len(analysis_runs') = Len(analysis_runs) + 1
            /\ IsPrefix(analysis_runs, analysis_runs')
            /\ LET new == analysis_runs'[Len(analysis_runs')]
               IN  /\ new.total_galamsay_sites = results.total_sites
                   /\ city_data' = city_data \o CityRowsOf(results, new.id)
                   /\ cities_exceeding_threshold' =
                         cities_exceeding_threshold \o ExceedsRowsOf(results, new.id)
       /\ (op' = "save" /\ ret' = FALSE) => Store' = Store
       /\ (op' \in {"get_latest_analysis", "get_analysis_detail"} /\ ret'.status = 200) =>
            WholeRun(ret'.body)]_vars

\* a save that failed after the flush and after adding one of two city
\* rows: the tables hold the earlier run alone
C8_Witness ==
    /\ op = "save"
    /\ ret = FALSE
    /\ arg.flushed
    /\ arg.cities_added = 1
    /\ Len(results.cleaned_data) = 2
    /\ Len(analysis_runs) = 1
    /\ Len(city_data) = 1
    /\ city_data[1].analysis_run_id = analysis_runs[1].id

\* the step in which an execution of the pipeline completes
Completes == pc = "saving" /\ op' = "save" /\ ret' = TRUE

\* C9: an execution of the pipeline that completes creates exactly one new
\* run, with an id that no stored run has; every other step (of an
\* execution that fails, of another execution, of any query endpoint) leaves
\* the three tables as they are; no stored row is ever changed or removed.
C9_RunsOnlyGrow ==
    [][/\ IsPrefix(analysis_runs, analysis_runs')
       /\ IsPrefix(city_data, city_data')
       /\ IsPrefix(cities_exceeding_threshold, cities_exceeding_threshold')
       /\ Completes =>
            /\ Len(analysis_runs') = Len(analysis_runs) + 1
            /\ \A i \in 1..Len(analysis_runs) :
                  analysis_runs[i].id # analysis_runs'[Len(analysis_runs')].id
       /\ ~Completes => Store' = Store]_vars

\* two executions have completed, one has failed in between or after, and a
\* query has been answered: two runs, two ids
C9_Witness ==
    /\ Len(analysis_runs) = 2
    /\ analysis_runs[1].id # analysis_runs[2].id
    /\ op = "get_region_data"
    /\ ret.status = 200

MetricAccessors ==
    {"get_total_sites", "get_region_with_highest_sites", "get_average_per_region",
     "get_cities_exceeding_threshold", "get_city_data", "get_region_data"}

\* the response ret of accessor op is an answer from the stored run
AnswersFrom(run) ==
    CASE op = "get_total_sites" ->
            ret = Http200([total_galamsay_sites |-> run.total_galamsay_sites,
                           analysis_id |-> run.id, timestamp |-> run.timestamp])
      [] op = "get_region_with_highest_sites" ->
            ret = Http200([region |-> run.region_with_highest_sites,
                           galamsay_sites |-> run.highest_sites_count,
                           analysis_id |-> run.id, timestamp |-> run.timestamp])
      [] op = "get_average_per_region" ->
            ret = Http200([average_sites_per_region |-> run.average_sites_per_region,
                           analysis_id |-> run.id, timestamp |-> run.timestamp])
      [] op = "get_cities_exceeding_threshold" ->
            /\ ret.status = 200
            /\ LET mine == MapSeq(RowsOfRun(cities_exceeding_threshold, run.id),
                                  CityExceedsThresholdResponse)
               IN  /\ \A i \in 1..Len(ret.body) : \E j \in 1..Len(mine) : ret.body[i] = mine[j]
                   /\ arg.threshold = 0 => ret.body = mine
      [] op = "get_city_data" ->
            IF ret.status = 200
            THEN /\ ret.body.analysis_id = run.id
                 /\ ret.body.timestamp = run.timestamp
                 /\ \E i \in 1..Len(city_data) :
                       /\ city_data[i].analysis_run_id = run.id
                       /\ city_data[i].city = ret.body.city
                       /\ city_data[i].galamsay_sites = ret.body.galamsay_sites
            ELSE ret = Http404("City not found in analysis")
      [] op = "get_region_data" ->
            IF ret.status = 200
            THEN /\ ret.body.analysis_id = run.id
                 /\ ret.body.timestamp = run.timestamp
                 /\ \A i \in 1..Len(ret.body.cities) : \E j \in 1..Len(city_data) :
                       /\ city_data[j].analysis_run_id = run.id
                       /\ city_data[j].city = ret.body.cities[i].city
                       /\ city_data[j].galamsay_sites = ret.body.cities[i].galamsay_sites
            ELSE ret = Http404("Region not found in analysis")

\* C10: a metric accessor called with a run id answers from the stored run
\* that has this id and fails with 404 when no stored run has it, for every
\* integer id; called without a run id it answers from a run with the
\* greatest timestamp and fails with 404 when no run is stored.
C10_AccessorsResolveTheRun ==
    op \in MetricAccessors =>
        IF arg.has_id
        THEN IF \E i \in 1..Len(analysis_runs) : analysis_runs[i].id = arg.analysis_id
             THEN \E i \in 1..Len(analysis_runs) :
                     analysis_runs[i].id = arg.analysis_id /\ AnswersFrom(analysis_runs[i])
             ELSE ret.status = 404
        ELSE IF analysis_runs = <<>>
             THEN ret.status = 404
             ELSE \E i \in 1..Len(analysis_runs) :
                     /\ \A j \in 1..Len(analysis_runs) :
                           analysis_runs[j].timestamp <= analysis_runs[i].timestamp
                     /\ AnswersFrom(analysis_runs[i])

-----------------------------------------------------------------------------
(* Properties of the city lookup and of the region rollup *)

\* the runs a request with query arg may have been answered from
ResolvedRuns ==
    IF IdGiven(arg)
    THEN {analysis_runs[i] : i \in {k \in 1..Len(analysis_runs) :
                                       analysis_runs[k].id = arg.analysis_id}}
    ELSE LatestRuns(analysis_runs) \ {None}

\* the city rows of run whose field (city or region) is name up to letter case
RowsNamed(run, Field(_)) ==
    SelectSeq(RowsOfRun(city_data, run.id), LAMBDA c : EqIgnoreCase(Field(c), arg.name))

CityOf(c) == c.city
RegionOf(c) == c.region

\* C11: for the run a request is answered from, the city lookup returns a
\* record exactly when the run has a record whose city is the requested name
\* up to letter case, the returned record being one of these records of this
\* run, and answers not-found otherwise; the region rollup is made of exactly
\* the records of the run whose region is the requested name up to letter
\* case, and answers not-found when there are none.
C11_LookupByNameIgnoringCase ==
    /\ (op = "get_city_data" /\ ResolvedRuns # {}) =>
          \E run \in ResolvedRuns :
             LET mine == RowsNamed(run, CityOf)
             IN  IF mine = <<>>
                 THEN ret.status = 404 /\ ret.detail = "City not found in analysis"
                 ELSE /\ ret.status = 200
                      /\ ret.body.analysis_id = run.id
                      /\ \E i \in 1..Len(mine) :
                            /\ mine[i].city = ret.body.city
                            /\ mine[i].region = ret.body.region
                            /\ mine[i].galamsay_sites = ret.body.galamsay_sites
    /\ (op = "get_region_data" /\ ResolvedRuns # {}) =>
          \E run \in ResolvedRuns :
             LET mine == RowsNamed(run, RegionOf)
             IN  IF mine = <<>>
                 THEN ret.status = 404 /\ ret.detail = "Region not found in analysis"
                 ELSE /\ ret.status = 200
                      /\ ret.body.analysis_id = run.id
                      /\ ret.body.number_of_cities = Len(mine)
                      /\ ret.body.total_sites = SumGalamsaySites(mine)
                      /\ \A i \in 1..Len(ret.body.cities) : \E j \in 1..Len(mine) :
                            /\ mine[j].city = ret.body.cities[i].city
                            /\ mine[j].galamsay_sites = ret.body.cities[i].galamsay_sites

-----------------------------------------------------------------------------
(* Properties of clean_data, checked under SpecAnalyze *)

\* the record of an acceptable row
RecordOf(row) == CleanRecord(Strip(row.City), Strip(row.Region), ParseInt(row.Sites).val)

\* the records of the acceptable rows of rows, in the order of rows
AcceptedRecords(rows) == MapSeq(SelectSeq(rows, Acceptable), RecordOf)

\* C12: after a clean_data that succeeded, cleaned_data is the sequence of
\* the records of the rows of raw_data that clean_row accepts, every one of
\* them once and in the order of raw_data; the cleaned_data field of a result
\* of analyze is the analyzer's cleaned_data.
C12_CleanedIsAcceptedSubsequence ==
    /\ (op = "clean_data" /\ ret = TRUE) => cleaned_data = AcceptedRecords(raw_data)
    /\ Analyzed => ret.cleaned_data = cleaned_data

\* three rows, the one in the middle rejected: the first and the third are
\* kept in this order, and analyze hands them on
C12_Witness ==
    /\ Analyzed
    /\ Len(raw_data) = 3
    /\ ~Acceptable(raw_data[2])
    /\ cleaned_data = <<RecordOf(raw_data[1]), RecordOf(raw_data[3])>>
    /\ cleaned_data[1] # cleaned_data[2]
    /\ ret.cleaned_data = cleaned_data

-----------------------------------------------------------------------------
(* Properties of one analyzer under any order of calls, checked under      *)
(* SpecCalls                                                                *)

-----------------------------------------------------------------------------
(* Properties of the sessions, checked under Spec *)

\* C14: a session that save_analysis_to_database has opened is closed when
\* save_analysis_to_database returns, whether it returns True or, after a
\* failure of the flush, of adding a child row or of the commit, False: no
\* session is left open or abandoned once the operation is over.
C14_SessionsReleased ==
    (op = "save" \/ pc \in {"exit", "idle"}) => session \in {"none", "closed"}

-----------------------------------------------------------------------------
(* Properties of list_analyses, checked under Spec *)

Min(a, b) == IF a <= b THEN a ELSE b
Max(a, b) == IF a >= b THEN a ELSE b

\* page is the runs offset+1 .. offset+k of an order of all stored runs by
\* descending timestamp
IsPage(page, offset, k, runs) ==
    /\ Len(page) = k
    /\ \E ord \in RunsByTimestampDesc(runs) : page = SubSeq(ord, offset + 1, offset + k)

\* a request for the latest run has been answered, and the next request, on
\* the same tables, is one for the first page
LatestThenFirstPage ==
    /\ op = "get_latest_analysis" /\ ret.status = 200
    /\ op' = "list_analyses" /\ arg'.offset = 0 /\ ret'.status = 200

GreatestTimestampIsUnique ==
    \A i, j \in 1..Len(analysis_runs) :
        (/\ \A k \in 1..Len(analysis_runs) :
               analysis_runs[k].timestamp <= analysis_runs[i].timestamp
         /\ analysis_runs[j].timestamp = analysis_runs[i].timestamp) => i = j

\* C15 as stated: list_analyses(limit, offset) returns exactly
\* min(limit, max(0, N - offset)) runs, those that follow the first offset
\* runs in the order by descending timestamp of the N stored runs, and the
\* first run of the page for offset 0 is the run the latest-run accessor
\* returns.
C15_PageOfRecentRuns ==
    [][/\ op' = "list_analyses" =>
            /\ ret'.status = 200
            /\ IsPage(ret'.body, arg'.offset,
                      Min(arg'.limit, Max(0, Len(analysis_runs') - arg'.offset)),
                      analysis_runs')
       /\ LatestThenFirstPage => ret'.body[1].id = ret.body.id]_vars

\* C15, amended: when more than offset runs are stored, list_analyses
\* returns exactly min(limit, N - offset) runs, those that follow the first
\* offset runs in an order by descending timestamp of the N stored runs;
\* when no more than offset runs are stored it answers not-found; the first
\* run of the page for offset 0 has the greatest timestamp, and is the run
\* the latest-run accessor returns when no other run has this timestamp.
C15_PageOfRecentRunsOr404 ==
    [][/\ op' = "list_analyses" =>
            IF Len(analysis_runs') > arg'.offset
            THEN /\ ret'.status = 200
                 /\ IsPage(ret'.body, arg'.offset,
                           Min(arg'.limit, Len(analysis_runs') - arg'.offset),
                           analysis_runs')
                 /\ arg'.offset = 0 =>
                       \A i \in 1..Len(analysis_runs') :
                           analysis_runs'[i].timestamp <= ret'.body[1].timestamp
            ELSE ret'.status = 404
       /\ (LatestThenFirstPage /\ GreatestTimestampIsUnique) =>
             ret'.body[1].id = ret.body.id]_vars

\* two stored runs, the second one the more recent; limit 1, offset 1: the
\* page is the first run
C15_Witness ==
    /\ op = "list_analyses"
    /\ arg = [limit |-> 1, offset |-> 1]
    /\ Len(analysis_runs) = 2
    /\ analysis_runs[1].timestamp < analysis_runs[2].timestamp
    /\ ret.status = 200
    /\ ret.body = <<analysis_runs[1]>>

-----------------------------------------------------------------------------
(* Properties of the log and of the stages, checked under SpecCalls *)

\* the entries that the rows of rows give rise to, row by row
RECURSIVE RowEntries(_)
RowEntries(rows) ==
    IF rows = <<>> THEN <<>>
    ELSE CleanRowOp(<<>>, Head(rows)).errors \o RowEntries(Tail(rows))

\* C16: the log after any call of load_csv, clean_row, clean_data or
\* analyze has the log before the call as a prefix; the entries a clean_data
\* adds are the entries of the rows of raw_data, in the order of the rows,
\* and a clean_row adds the entry of its row, if any, at the end.
C16_LogIsAppendOnly ==
    [][/\ IsPrefix(errors, errors')
       /\ (op' = "clean_data" /\ ret' = TRUE) => errors' = errors \o RowEntries(raw_data)
       /\ op' = "clean_row" => errors' = errors \o RowEntries(<<arg'>>)]_vars

\* a missing file, then a file of a rejected row and an outlier row,
\* cleaned: the three entries in the order of the calls and of the rows
C16_Witness ==
    /\ op = "clean_data"
    /\ ret = TRUE
    /\ raw_data = <<BadRow, Row201>>
    /\ errors = <<FileNotFoundMsg, InvalidCityMsg(S_UnknownCity), OutlierMsg(S_Accra, 201)>>

-----------------------------------------------------------------------------
(* Properties of the average, checked under SpecAnalyze *)

\* C17: for a non-empty sequence of clean records, avg_per_region is the
\* quotient of total_sites by the number of distinct regions, which is the
\* number of keys of region_totals: avg_per_region times this number is
\* total_sites.
C17_AverageIsTotalOverRegions ==
    Analyzed =>
        LET K == Cardinality(RegionsOf(cleaned_data))
            avg == ret.avg_per_region
        IN  /\ K = Len(ret.region_totals)
            /\ avg.den > 0
            /\ avg.num * K = ret.total_sites * avg.den

\* 25 sites in 'Ashanti' and 10 in 'ashanti': 35 over 2 regions, 17.5
C17_Witness ==
    /\ Analyzed
    /\ ret.total_sites = 35
    /\ Cardinality(RegionsOf(cleaned_data)) = 2
    /\ 2 * ret.avg_per_region.num = 35 * ret.avg_per_region.den

-----------------------------------------------------------------------------
(* Properties of the failing stages, checked under SpecCalls *)

\* C18: load_csv on a missing file returns False, appends one entry to the
\* log and leaves raw_data (and cleaned_data) as they were; clean_data on an
\* empty raw_data, nothing being loaded or the file holding its header only,
\* returns False, appends one entry to the log and leaves cleaned_data (and
\* raw_data) as they were.
C18_StageFailuresAreValues ==
    [][/\ (op' = "load_csv" /\ ~arg'.exists) =>
            /\ ret' = FALSE
            /\ errors' = Append(errors, FileNotFoundMsg)
            /\ raw_data' = raw_data
            /\ cleaned_data' = cleaned_data
       /\ (op' = "clean_data" /\ raw_data = <<>>) =>
            /\ ret' = FALSE
            /\ errors' = Append(errors, NoDataMsg)
            /\ cleaned_data' = cleaned_data
            /\ raw_data' = raw_data]_vars

\* a file has been loaded and cleaned, then found missing, then found with
\* its header only: the clean_data that follows fails and the two records
\* cleaned before are still there
C18_Witness ==
    /\ op = "clean_data"
    /\ ret = FALSE
    /\ raw_data = <<>>
    /\ Len(cleaned_data) = 2
    /\ errors = <<InvalidCityMsg(S_UnknownCity), FileNotFoundMsg, NoDataMsg>>

-----------------------------------------------------------------------------
(* Properties of the effects of analyze, checked under SpecCalls *)

\* a step that is a call of analyze
AnalyzeStep == op' \in {"analyze", "analyze_again"}

\* C19 as stated: a call of analyze leaves raw_data, cleaned_data and the
\* log as they were before the call, whether cleaned_data is empty or not.
C19_AnalyzeChangesNothing ==
    [][AnalyzeStep =>
          /\ raw_data' = raw_data
          /\ cleaned_data' = cleaned_data
          /\ errors' = errors]_vars

\* C19, amended: a call of analyze leaves raw_data and cleaned_data as they
\* were before the call; it leaves the log as it was when cleaned_data is
\* not empty, and appends the one entry 'No cleaned data to analyze' to it
\* when cleaned_data is empty.
C19_AnalyzeOnlyLogsWhenEmpty ==
    [][AnalyzeStep =>
          /\ raw_data' = raw_data
          /\ cleaned_data' = cleaned_data
          /\ errors' = IF cleaned_data = <<>>
                       THEN Append(errors, NoCleanedDataMsg)
                       ELSE errors]_vars

\* analyze called on loaded rows that have not been cleaned: it returns {},
\* the rows are as they were and the log has its entry
C19_Witness ==
    /\ op = "analyze"
    /\ ret = EmptyDict
    /\ raw_data = <<BadRow, Row201>>
    /\ cleaned_data = <<>>
    /\ errors = <<NoCleanedDataMsg>>

-----------------------------------------------------------------------------
(* Properties of the stored runs, checked under Spec *)

\* the city rows of rows whose count is above 10, as exceeding rows
Above10(rows) ==
    MapSeq(SelectSeq(rows, LAMBDA c : c.galamsay_sites > 10),
           LAMBDA c : [analysis_run_id |-> c.analysis_run_id, city |-> c.city,
                       region |-> c.region, galamsay_sites |-> c.galamsay_sites,
                       threshold |-> 10])

\* run with its rows in tables cities and exceeding is of one piece
Consistent(run, cities, exceeding) ==
    /\ RowsOfRun(exceeding, run.id) = Above10(RowsOfRun(cities, run.id))
    /\ run.total_galamsay_sites = SumGalamsaySites(RowsOfRun(cities, run.id))

\* C20: the run that a completing save stores has as its city rows the
\* cleaned records of the result it was given, as many and with the same
\* city, region and sites, and as its top region and top-region total the
\* region_with_highest and highest_count of that result; and every stored
\* run has as its exceeding rows its city rows with more than 10 sites, each
\* with threshold 10, and as its total the sum of the sites of its city rows.
C20_StoredRunIsSnapshot ==
    [][/\ Completes =>
            LET new == analysis_runs'[Len(analysis_runs')]
                cities == RowsOfRun(city_data', new.id)
            IN  /\ Len(cities) = Len(results.cleaned_data)
                /\ \A i \in 1..Len(cities) :
                      /\ cities[i].city = results.cleaned_data[i].city
                      /\ cities[i].region = results.cleaned_data[i].region
                      /\ cities[i].galamsay_sites = results.cleaned_data[i].sites
                /\ new.region_with_highest_sites = results.region_with_highest
                /\ new.highest_sites_count = results.highest_count
       /\ \A i \in 1..Len(analysis_runs') :
             Consistent(analysis_runs'[i], city_data', cities_exceeding_threshold')]_vars

\* two stored runs: the first with the records of Accra (25) and Kumasi
\* (10) and one exceeding row, the second with the record of Kumasi (11)
C20_Witness ==
    /\ op = "save"
    /\ ret = TRUE
    /\ Len(analysis_runs) = 2
    /\ Len(RowsOfRun(city_data, analysis_runs[1].id)) = 2
    /\ Len(RowsOfRun(cities_exceeding_threshold, analysis_runs[1].id)) = 1
    /\ analysis_runs[1].total_galamsay_sites = 35
    /\ analysis_runs[2].total_galamsay_sites = 11
    /\ Len(RowsOfRun(cities_exceeding_threshold, analysis_runs[2].id)) = 1

-----------------------------------------------------------------------------
(* Properties of the region rollup against the aggregator, checked under   *)
(* Spec                                                                     *)

\* the clean records a stored run was saved from, read back from its city
\* rows
RecordsOfRun(run) ==
    MapSeq(RowsOfRun(city_data, run.id),
           LAMBDA c : CleanRecord(c.city, c.region, c.galamsay_sites))

\* region_totals as analyze computes it for the records of a stored run
RegionTotalsOfRun(run) == GroupByRegion(RecordsOfRun(run), <<>>)

\* C21: when the region rollup is requested for a region R that is a key of
\* region_totals of the run the request is answered from, it returns
\* total_sites equal to region_totals[R] and number_of_cities equal to the
\* number of records of that run whose region is exactly R; for the stored
\* top region of the run it returns the stored top-region total.
C21_RollupAgreesWithRegionTotals ==
    (op = "get_region_data" /\ ResolvedRuns # {}) =>
        \E run \in ResolvedRuns :
            LET rt == RegionTotalsOfRun(run)
            IN  \A i \in 1..Len(rt) :
                   rt[i].region = arg.name =>
                      /\ ret.status = 200
                      /\ ret.body.analysis_id = run.id
                      /\ ret.body.total_sites = rt[i].total
                      /\ ret.body.number_of_cities =
                            Len(SelectSeq(RecordsOfRun(run), LAMBDA r : r.region = arg.name))
                      /\ arg.name = run.region_with_highest_sites =>
                            ret.body.total_sites = run.highest_sites_count

====
